---- MODULE Spec2Model ----
(***************************************************************************)
(* PaperWrite: the document session of App (operating mode, sections,      *)
(* saved documents, remote and local persistence, text generation) and the *)
(* continuous-view reconciliation of FullDocumentModal.                    *)
(*                                                                         *)
(* Strings are sequences of tokens.  A token is one character ("a", " ",   *)
(* "\n", a digit), a fixed piece of text written as one token ("Section ", *)
(* "Untitled Section", the messages of the code), or one piece of markup:  *)
(* "<h2>" and "</h2>" (the tags of a level-2 heading), "<hr>" (a rule) and *)
(* "<p>" (a whole paragraph element <p>a</p>, whose text is "a").          *)
(***************************************************************************)
EXTENDS Integers, Sequences, FiniteSets, Bags, TLC

\* ------------------------------------------------------------------ bounds

\* Largest reading of the clock (Date.now()); the clock starts at 1.
MaxClock == 2
\* Largest number of sections a handler of the session model lets the list grow to.
MaxRows == 2
\* Largest number of saved documents (local list or remote table).
MaxDocs == 2
\* Largest number of times useSupabase reports a new state after it has loaded.
MaxSdkChanges == 1
\* Largest number of sections of an initial document of the continuous-view model.
MaxSyncRows == 2
\* Largest number of notes of one category of a section.
MaxSectionInputs == 2
\* Largest number of generateText calls pending at a time.
MaxPending == 2
\* Largest number of handleSaveDocument and handleDeleteDocument calls in
\* flight at a time.
MaxRequests == 2
\* Largest number of files being read by handleFileUpload at a time.
MaxImports == 1

\* ----------------------------------------------------------------- strings

WhiteSpace == {" ", "\n"}

\* String.prototype.trim, front part
RECURSIVE trimStart(_)
trimStart(s) ==
    IF s # <<>> /\ Head(s) \in WhiteSpace THEN trimStart(Tail(s)) ELSE s

\* String.prototype.trim, back part
RECURSIVE trimEnd(_)
trimEnd(s) ==
    IF s # <<>> /\ s[Len(s)] \in WhiteSpace
    THEN trimEnd(SubSeq(s, 1, Len(s) - 1))
    ELSE s

trim(s) == trimEnd(trimStart(s))

DigitChar(d) ==
    CASE d = 0 -> "0" [] d = 1 -> "1" [] d = 2 -> "2" [] d = 3 -> "3"
      [] d = 4 -> "4" [] d = 5 -> "5" [] d = 6 -> "6" [] d = 7 -> "7"
      [] d = 8 -> "8" [] OTHER -> "9"

\* Number.prototype.toString: the decimal digits of n
RECURSIVE toString(_)
toString(n) ==
    IF n < 10 THEN <<DigitChar(n)>>
    ELSE Append(toString(n \div 10), DigitChar(n % 10))

\* String.prototype.substring(0, k)
substring0(s, k) == SubSeq(s, 1, IF Len(s) < k THEN Len(s) ELSE k)

\* a || b on strings: the empty string is falsy
OrElse(a, b) == IF a # <<>> THEN a ELSE b

\* ---------------------------------------------------------------- sections

NoError == "undefined"
NoId == 0

UntitledSection == <<"Untitled Section">>

defaultAiPrompt == [wordCount |-> 100, tone |-> "professional", prompt |-> <<>>]

defaultSectionInputs ==
    [facts |-> << <<>> >>, concepts |-> << <<>> >>, opinions |-> << <<>> >>,
     examples |-> << <<>> >>, other |-> << <<>> >>]

defaultExpandedInputs ==
    [facts |-> FALSE, concepts |-> FALSE, opinions |-> FALSE,
     examples |-> FALSE, other |-> FALSE]

\* createInitialRow(id, input, title); the id is the clock reading whose
\* decimal string the code uses.
createInitialRow(id, input, title) ==
    [id |-> id,
     title |-> OrElse(title, <<"Section ">> \o substring0(toString(id), 4)),
     input |-> input,
     aiPrompt |-> defaultAiPrompt,
     output |-> <<>>,
     isExpanded |-> TRUE,
     isLoading |-> FALSE,
     sectionInputs |-> defaultSectionInputs,
     expandedInputs |-> defaultExpandedInputs,
     error |-> NoError]

\* ------------------------------------------------- continuous view: markup

\* The merge effect of FullDocumentModal: a heading and the output per
\* section, joined by rules.
mergeRow(row) ==
    <<"<h2>">> \o OrElse(row.title, UntitledSection) \o <<"</h2>", "\n">> \o row.output

RECURSIVE joinRows(_)
joinRows(rs) ==
    IF rs = <<>> THEN <<>>
    ELSE IF Len(rs) = 1 THEN mergeRow(rs[1])
    ELSE mergeRow(rs[1]) \o <<"\n", "<hr>", "\n">> \o joinRows(Tail(rs))

combinedHtml(rs) == joinRows(rs)

\* Nodes of the parsed wrapper <div>: nodeName, textContent and outerHTML
\* (the empty string stands for the undefined outerHTML of a text node).
h2Node(text) == [nodeName |-> "H2", textContent |-> text, outerHTML |-> <<"<h2>">> \o text \o <<"</h2>">>]
hrNode == [nodeName |-> "HR", textContent |-> <<>>, outerHTML |-> <<"<hr>">>]
pNode == [nodeName |-> "P", textContent |-> <<"a">>, outerHTML |-> <<"<p>">>]
textNode(text) == [nodeName |-> "#text", textContent |-> text, outerHTML |-> <<>>]

\* A character is appended to the text node that ends the list, if any.
appendChar(nodes, c) ==
    IF nodes # <<>> /\ nodes[Len(nodes)].nodeName = "#text"
    THEN [nodes EXCEPT ![Len(nodes)] = textNode(@.textContent \o <<c>>)]
    ELSE Append(nodes, textNode(<<c>>))

\* DOMParser.parseFromString on the wrapped content: the child nodes of the
\* wrapper.  inH2 says a heading is open and acc is its text so far.  A
\* heading start tag inside a heading closes the open one, an end tag with
\* no open heading is ignored, and the end of the input closes the heading.
RECURSIVE parseNodes(_, _, _, _)
parseNodes(s, nodes, inH2, acc) ==
    IF s = <<>> THEN (IF inH2 THEN Append(nodes, h2Node(acc)) ELSE nodes)
    ELSE LET c == Head(s)
             r == Tail(s)
         IN IF inH2
            THEN CASE c = "</h2>" -> parseNodes(r, Append(nodes, h2Node(acc)), FALSE, <<>>)
                   [] c = "<h2>" -> parseNodes(r, Append(nodes, h2Node(acc)), TRUE, <<>>)
                   [] c = "<hr>" -> parseNodes(r, nodes, TRUE, acc)
                   [] c = "<p>" -> parseNodes(r, nodes, TRUE, acc \o pNode.textContent)
                   [] OTHER -> parseNodes(r, nodes, TRUE, Append(acc, c))
            ELSE CASE c = "<h2>" -> parseNodes(r, nodes, TRUE, <<>>)
                   [] c = "</h2>" -> parseNodes(r, nodes, FALSE, <<>>)
                   [] c = "<hr>" -> parseNodes(r, Append(nodes, hrNode), FALSE, <<>>)
                   [] c = "<p>" -> parseNodes(r, Append(nodes, pNode), FALSE, <<>>)
                   [] OTHER -> parseNodes(r, appendChar(nodes, c), FALSE, <<>>)

parsedNodes(content) == parseNodes(content, <<>>, FALSE, <<>>)

\* (node as Element).outerHTML || node.textContent || ''
nodeHtml(node) == OrElse(node.outerHTML, node.textContent)

appendToCurrent(secs, html) ==
    [secs EXCEPT ![Len(secs)].outputHTML = @ \o html]

\* The forEach over the parsed nodes; currentSection is the section pushed
\* last, and is null exactly when none was pushed.
RECURSIVE collectSections(_, _)
collectSections(nodes, secs) ==
    IF nodes = <<>> THEN secs
    ELSE LET node == Head(nodes)
             rest == Tail(nodes)
         IN IF node.nodeName = "H2"
            THEN collectSections(rest,
                   Append(secs, [title |-> trim(OrElse(node.textContent, UntitledSection)),
                                 outputHTML |-> <<>>]))
            ELSE IF secs # <<>> /\ node.nodeName # "HR"
            THEN collectSections(rest, appendToCurrent(secs, nodeHtml(node)))
            ELSE IF secs = <<>> /\ node.nodeName # "HR" /\ trim(node.textContent) # <<>>
            THEN collectSections(rest,
                   <<[title |-> UntitledSection, outputHTML |-> nodeHtml(node)]>>)
            ELSE collectSections(rest, secs)

\* newSectionsData after the trim of every outputHTML
newSectionsData(content) ==
    LET secs == collectSections(parsedNodes(content), <<>>)
    IN [i \in 1..Len(secs) |-> [title |-> secs[i].title, outputHTML |-> trim(secs[i].outputHTML)]]

\* Rows made anew from the parsed sections.
updatedRowsMadeAnew(rs, data) ==
    [i \in 1..Len(rs) |->
       [createInitialRow(Len(rs) + i, <<>>, data[i].title) EXCEPT
           !.title = data[i].title, !.output = data[i].outputHTML]]

\* Rows that take the parsed sections in the opposite order.
updatedRowsBackwards(rs, data) ==
    [i \in 1..Len(rs) |->
       [rs[i] EXCEPT !.title = data[Len(rs) + 1 - i].title,
                     !.output = data[Len(rs) + 1 - i].outputHTML]]

\* The rows handed to onUpdateAllRows when the lengths match.
updatedRows(rs, data) ==
    [i \in 1..Len(rs) |->
       IF rs[i].title # data[i].title \/ rs[i].output # data[i].outputHTML
       THEN [rs[i] EXCEPT !.title = data[i].title, !.output = data[i].outputHTML]
       ELSE rs[i]]

\* ------------------------------------------------------------------- state

VARIABLES
    now,                \* the reading of the clock (Date.now(), new Date())
    sdk,                \* what useSupabase reports: "loading", "ready", "unavailable", "error"
    sdkChanges,         \* how many times useSupabase has left a state it had loaded
    isAiInitialized,    \* App state: initializeOpenAI succeeded
    operatingMode,      \* App state: "loading", "supabase", "local", "error"
    appError,           \* App state: the recorded cause, or "null"
    rows,               \* App state: the sections being edited
    savedDocuments,     \* App state: the list of saved documents
    currentDocumentId,  \* App state: the id of the open document, or NoId
    db,                 \* the rows of the remote documents table, in insertion order
    dbSeq,              \* how many rows the remote table has ever been given
    ls,                 \* window.localStorage: the three document keys
    loadFlow,           \* the loadFromSupabase calls started by the mode-selection effect
                        \* that are in flight: how many await getUser, how many the select
    opFlow,             \* the handleSaveDocument / handleDeleteDocument calls in flight
    gens,               \* bag of the ids given to the generateText calls that are pending
    imports,            \* bag of the texts of the files whose file.text() is pending
    viewMode,           \* FullDocumentModal state: "sections" or "continuous"
    continuousContent,  \* FullDocumentModal state: the merged markup being edited
    syncStatus,         \* FullDocumentModal state: type and message
    last,               \* history: the handler that ran last, and the modes passed through
    saved               \* history: what the last local save wrote, and the sections then

vars == <<now, sdk, sdkChanges, isAiInitialized, operatingMode, appError, rows, savedDocuments,
          currentDocumentId, db, dbSeq, ls, loadFlow, opFlow, gens, imports, viewMode,
          continuousContent, syncStatus, last, saved>>

appVars == <<operatingMode, appError, rows, savedDocuments, currentDocumentId>>
modalVars == <<viewMode, continuousContent, syncStatus>>

NoItem == [present |-> FALSE]
NoLoads == [getUser |-> 0, select |-> 0]
IdleStatus == [type |-> "idle", message |-> ""]
NoSave == [done |-> FALSE]

\* The history before any handler has run.
NoneRan ==
    [op |-> "init", branch |-> "", arg |-> NoId, beenLocalOrError |-> FALSE,
     beenSupabase |-> FALSE]

\* The history after a handler ran: the handler, the branch it took, what
\* it was given, and whether the mode was "local" or "error", and whether
\* it was "supabase", in some state before the one the handler leads to.
Ran(op, branch, arg) ==
    [op |-> op, branch |-> branch, arg |-> arg,
     beenLocalOrError |-> last.beenLocalOrError \/ operatingMode \in {"local", "error"},
     beenSupabase |-> last.beenSupabase \/ operatingMode = "supabase"]

\* ------------------------------------------------------------ localStorage

\* An item whose text JSON.parse rejects.
CorruptItem == [present |-> TRUE, corrupt |-> TRUE]

\* What JSON.parse makes of the texts "null" and "{}": values that are not
\* lists, and have neither length nor find.
JsonNull == [i \in {0} |-> "null"]
JsonObject == [i \in {0} |-> "{}"]

\* Array.isArray
isArray(value) == value \notin {JsonNull, JsonObject}

\* setItem: JSON.stringify of the value under the key; when the quota of
\* the store is exhausted, localStorage.setItem throws, the catch logs and
\* the store is as before.
setItem(store, key, value) ==
    IF store.full THEN store
    ELSE [store EXCEPT ![key] = [present |-> TRUE, corrupt |-> FALSE, json |-> value]]

\* getItem: JSON.parse of the item, or the initial value when there is no
\* item or JSON.parse throws.
getItem(store, key, initialValue) ==
    IF store[key].present /\ ~store[key].corrupt THEN store[key].json ELSE initialValue

\* saveStateToLocalStorage on the state after the step
saveStateToLocalStorage(store) ==
    setItem(setItem(setItem(store, "rows", rows'), "docs", savedDocuments'),
            "cur", currentDocumentId')

\* An effect that saves whenever relevant state changed, in any mode.
AutoSaveInAnyMode(base) ==
    ls' = IF appVars' # appVars THEN saveStateToLocalStorage(base) ELSE base

\* The effect that saves whenever relevant state changed in local mode;
\* base is the store as the handler itself left it.
AutoSave(base) ==
    ls' = IF operatingMode' = "local" /\ appVars' # appVars
          THEN saveStateToLocalStorage(base)
          ELSE base

\* FullDocumentModal is mounted only in "supabase" and "local" mode; while
\* mounted in continuous view, its effect merges the sections again
\* whenever rows is set.
ModalEffect(rowsSet) ==
    IF operatingMode' \notin {"supabase", "local"}
    THEN viewMode' = "sections" /\ continuousContent' = <<>> /\ syncStatus' = IdleStatus
    ELSE IF viewMode = "continuous" /\ rowsSet
    THEN viewMode' = viewMode /\ continuousContent' = combinedHtml(rows')
         /\ syncStatus' = IdleStatus
    ELSE UNCHANGED modalVars

\* ------------------------------------------------------------ saved documents

Min(S) == CHOOSE x \in S : \A y \in S : x <= y

\* Array.prototype.findIndex(doc => doc.id === id), 1-based; 0 when none
findIndex(docs, id) ==
    LET hits == {i \in 1..Len(docs) : docs[i].id = id}
    IN IF hits = {} THEN 0 ELSE Min(hits)

\* Array.prototype.filter
RECURSIVE filterOutId(_, _)
filterOutId(seq, id) ==
    IF seq = <<>> THEN <<>>
    ELSE IF Head(seq).id = id THEN filterOutId(Tail(seq), id)
    ELSE <<Head(seq)>> \o filterOutId(Tail(seq), id)

\* One document put into a list sorted by updatedAt descending, after the
\* documents that do not sort after it (the sort is stable).
RECURSIVE insertByUpdatedAt(_, _)
insertByUpdatedAt(sorted, doc) ==
    IF sorted = <<>> THEN <<doc>>
    ELSE IF Head(sorted).updatedAt >= doc.updatedAt
    THEN <<Head(sorted)>> \o insertByUpdatedAt(Tail(sorted), doc)
    ELSE <<doc>> \o sorted

\* The documents in the order they have.
inGivenOrder(docs) == docs

\* docs.sort((a, b) => new Date(b.updatedAt) - new Date(a.updatedAt))
RECURSIVE sortByUpdatedAt(_)
sortByUpdatedAt(docs) ==
    IF docs = <<>> THEN <<>>
    ELSE insertByUpdatedAt(sortByUpdatedAt(SubSeq(docs, 1, Len(docs) - 1)), docs[Len(docs)])

mapSupabaseToSavedDocument(doc) ==
    [id |-> doc.id, title |-> doc.title, rows |-> doc.rows,
     createdAt |-> doc.created_at, updatedAt |-> doc.updated_at]

\* select('*').order('updated_at', {ascending: false}): the rows of the
\* table in some order that is descending in updated_at (rows with equal
\* updated_at come in either order), mapped.
selectDocuments ==
    {[i \in 1..Len(db) |-> mapSupabaseToSavedDocument(db[p[i]])] :
        p \in {q \in Permutations(1..Len(db)) :
                 \A i \in 1..Len(db), j \in 1..Len(db) :
                    i < j => db[q[i]].updated_at >= db[q[j]].updated_at}}

\* ----------------------------------------------------------- initialisation

\* loadFromLocalStorage: the catch branch.  The three setters before the
\* statement that threw have run.
localLoadFailed(localRows, localSavedDocs, localCurrentId) ==
    /\ rows' = localRows
    /\ savedDocuments' = localSavedDocs
    /\ currentDocumentId' = localCurrentId
    /\ appError' = "Failed to load data from LocalStorage"
    /\ operatingMode' = "error"
    /\ AutoSave(ls)

\* A loadFromLocalStorage that never restores sections that belong to no
\* saved document.
loadFromLocalStorageDroppingDraft ==
    LET localRows == getItem(ls, "rows", <<createInitialRow(now, <<>>, <<>>)>>)
        localSavedDocs == getItem(ls, "docs", <<>>)
        localCurrentId == getItem(ls, "cur", NoId)
        currentDoc == findIndex(localSavedDocs, localCurrentId)
    IN IF localCurrentId # NoId /\ ~isArray(localSavedDocs)
       THEN localLoadFailed(localRows, localSavedDocs, localCurrentId)
       ELSE IF localCurrentId = NoId /\ localRows = JsonNull
       THEN localLoadFailed(localRows, localSavedDocs, localCurrentId)
       ELSE /\ savedDocuments' = localSavedDocs
            /\ operatingMode' = "local"
            /\ appError' = "null"
            /\ IF localCurrentId # NoId /\ currentDoc > 0
               THEN /\ rows' = localSavedDocs[currentDoc].rows
                    /\ currentDocumentId' = localCurrentId
                    /\ AutoSave(ls)
               ELSE /\ rows' = <<createInitialRow(now, <<>>, <<>>)>>
                    /\ currentDocumentId' = NoId
                    /\ AutoSave(setItem(ls, "cur", NoId))

\* loadFromLocalStorage, with the autosave effect that follows it.
\* localSavedDocs.find throws when the item "saved-documents" is not a
\* list, and localRows.length when the item "document-rows" is null (of an
\* object it is undefined, and the sections are the object).
loadFromLocalStorage ==
    LET localRows == getItem(ls, "rows", <<createInitialRow(now, <<>>, <<>>)>>)
        localSavedDocs == getItem(ls, "docs", <<>>)
        localCurrentId == getItem(ls, "cur", NoId)
        currentDoc == findIndex(localSavedDocs, localCurrentId)
    IN IF localCurrentId # NoId /\ ~isArray(localSavedDocs)
       THEN localLoadFailed(localRows, localSavedDocs, localCurrentId)
       ELSE IF localCurrentId = NoId /\ localRows = JsonNull
       THEN localLoadFailed(localRows, localSavedDocs, localCurrentId)
       ELSE /\ savedDocuments' = localSavedDocs
            /\ operatingMode' = "local"
            /\ appError' = "null"
            /\ IF localCurrentId # NoId
               THEN IF currentDoc > 0
                    THEN /\ rows' = localSavedDocs[currentDoc].rows
                         /\ currentDocumentId' = localCurrentId
                         /\ AutoSave(ls)
                    ELSE /\ rows' = <<createInitialRow(now, <<>>, <<>>)>>
                         /\ currentDocumentId' = NoId
                         /\ AutoSave(setItem(ls, "cur", NoId))
               ELSE /\ rows' = IF /\ isArray(localRows)
                                  /\ \/ Len(localRows) = 0
                                     \/ /\ Len(localRows) = 1
                                        /\ localRows[1].input = <<>>
                                        /\ localRows[1].output = <<>>
                               THEN <<createInitialRow(now, <<>>, <<>>)>>
                               ELSE localRows
                    /\ currentDocumentId' = localCurrentId
                    /\ AutoSave(ls)

\* A catch branch of loadFromSupabase that resets the sections.
loadFailedResetting ==
    /\ operatingMode' = "error"
    /\ appError' = "Failed to load data from Supabase"
    /\ rows' = <<createInitialRow(now, <<>>, <<>>)>>
    /\ UNCHANGED <<savedDocuments, currentDocumentId>>

\* A catch branch of loadFromSupabase that records the cause only.
loadFailedSilently ==
    /\ appError' = "Failed to load data from Supabase"
    /\ UNCHANGED <<operatingMode, rows, savedDocuments, currentDocumentId>>

\* loadFromSupabase: the catch branch
loadFailed ==
    /\ operatingMode' = "error"
    /\ appError' = "Failed to load data from Supabase"
    /\ UNCHANGED <<rows, savedDocuments, currentDocumentId>>

\* A load that keeps the list it had.
loadSucceededKeepingList(data) ==
    /\ UNCHANGED savedDocuments
    /\ rows' = <<createInitialRow(now, <<>>, <<>>)>>
    /\ currentDocumentId' = NoId
    /\ operatingMode' = "supabase"
    /\ appError' = "null"

\* loadFromSupabase: the branch after the select answered with data
loadSucceeded(data) ==
    /\ savedDocuments' = data
    /\ rows' = <<createInitialRow(now, <<>>, <<>>)>>
    /\ currentDocumentId' = NoId
    /\ operatingMode' = "supabase"
    /\ appError' = "null"

SdkStates == {"loading", "ready", "unavailable", "error"}

\* The effect that determines the mode, run because useSupabase reports s.
modeSelectionEffect(s) ==
    /\ sdk' = s
    /\ IF s = "loading"
       THEN /\ operatingMode' = "loading"
            /\ UNCHANGED <<appError, rows, savedDocuments, currentDocumentId, loadFlow>>
            /\ AutoSave(ls)
       ELSE IF s = "ready"
       THEN /\ operatingMode' = "loading"
            /\ loadFlow' = [loadFlow EXCEPT !.getUser = @ + 1]
            /\ UNCHANGED <<appError, rows, savedDocuments, currentDocumentId>>
            /\ AutoSave(ls)
       ELSE /\ loadFromLocalStorage
            /\ UNCHANGED loadFlow
    /\ last' = Ran("modeSelection", s, NoId)
    /\ ModalEffect(TRUE)
    /\ UNCHANGED <<now, isAiInitialized, db, dbSeq, opFlow, gens, imports, saved>>

\* useSupabase finishes loading: the client is ready, or there is none
\* (with or without an error).
SdkLoaded ==
    /\ sdk = "loading"
    /\ \E s \in SdkStates \ {"loading"} : modeSelectionEffect(s)
    /\ UNCHANGED sdkChanges

\* useSupabase reports another state later in the session: the effect runs
\* again, whatever is in flight.
SdkChange ==
    /\ sdk # "loading"
    /\ sdkChanges < MaxSdkChanges
    /\ sdkChanges' = sdkChanges + 1
    /\ \E s \in SdkStates \ {sdk} : modeSelectionEffect(s)

\* loadFromSupabase started by the effect: auth.getUser answers one of the
\* calls in flight
EffectLoadGetUser ==
    /\ loadFlow.getUser > 0
    /\ \E ok \in BOOLEAN :
         IF ok
         THEN /\ loadFlow' = [getUser |-> loadFlow.getUser - 1, select |-> loadFlow.select + 1]
              /\ last' = Ran("loadFromSupabase", "pending", NoId)
              /\ UNCHANGED appVars
         ELSE /\ loadFlow' = [loadFlow EXCEPT !.getUser = @ - 1]
              /\ last' = Ran("loadFromSupabase", "failed", NoId)
              /\ loadFailed
    /\ AutoSave(ls)
    /\ ModalEffect(FALSE)
    /\ UNCHANGED <<now, sdk, sdkChanges, isAiInitialized, db, dbSeq, opFlow, gens, imports, saved>>

\* loadFromSupabase started by the effect: the select answers one of the
\* calls in flight
EffectLoadSelect ==
    /\ loadFlow.select > 0
    /\ loadFlow' = [loadFlow EXCEPT !.select = @ - 1]
    /\ \/ \E data \in selectDocuments : loadSucceeded(data)
       \/ loadFailed
    /\ last' = Ran("loadFromSupabase", IF operatingMode' = "error" THEN "failed" ELSE "loaded", NoId)
    /\ AutoSave(ls)
    /\ ModalEffect(operatingMode' = "supabase")
    /\ UNCHANGED <<now, sdk, sdkChanges, isAiInitialized, db, dbSeq, opFlow, gens, imports, saved>>

\* The clock moves on.
Tick ==
    /\ now < MaxClock
    /\ now' = now + 1
    /\ UNCHANGED <<sdk, sdkChanges, isAiInitialized, appVars, db, dbSeq, ls, loadFlow, opFlow, gens, imports,
                   modalVars, last, saved>>

\* ----------------------------------------------------------- section handlers

\* What a handler that only sets rows leaves alone.
\* The section grid, the document dialog and the full-document dialog are
\* rendered, and their handlers reachable, in these two modes only.
Rendered == operatingMode \in {"supabase", "local"}

RowsOnly ==
    /\ UNCHANGED <<operatingMode, appError, savedDocuments, currentDocumentId>>
    /\ AutoSave(ls)
    /\ ModalEffect(TRUE)
    /\ UNCHANGED <<now, sdk, sdkChanges, isAiInitialized, db, dbSeq, loadFlow, opFlow, gens, imports, saved>>

rowIds == {rows[i].id : i \in 1..Len(rows)}

handleAddRow ==
    /\ Rendered
    /\ Len(rows) < MaxRows
    /\ rows' = Append(rows, createInitialRow(now, <<>>, <<>>))
    /\ last' = Ran("handleAddRow", "added", NoId)
    /\ RowsOnly

\* A handleDeleteRow without the guard on the number of rows.
handleDeleteRowUnguarded(id) ==
    /\ Rendered
    /\ rows' = filterOutId(rows, id)
    /\ last' = Ran("handleDeleteRow", IF Len(rows) > 1 THEN "deleted" ELSE "kept", id)
    /\ RowsOnly

handleDeleteRow(id) ==
    /\ Rendered
    /\ IF Len(rows) > 1
       THEN /\ rows' = filterOutId(rows, id)
            /\ last' = Ran("handleDeleteRow", "deleted", id)
            /\ RowsOnly
       ELSE /\ last' = Ran("handleDeleteRow", "kept", id)
            /\ UNCHANGED <<now, sdk, sdkChanges, isAiInitialized, appVars, db, dbSeq, ls, loadFlow,
                           opFlow, gens, imports, modalVars, saved>>

\* rows.map(row => row.id === id ? {...row, input} : row)
handleUpdateInput(id, input) ==
    /\ Rendered
    /\ rows' = [i \in 1..Len(rows) |->
                  IF rows[i].id = id THEN [rows[i] EXCEPT !.input = input] ELSE rows[i]]
    /\ last' = Ran("handleUpdateInput", "set", id)
    /\ RowsOnly

handleUpdateTitle(id, title) ==
    /\ Rendered
    /\ rows' = [i \in 1..Len(rows) |->
                  IF rows[i].id = id THEN [rows[i] EXCEPT !.title = title] ELSE rows[i]]
    /\ last' = Ran("handleUpdateTitle", "set", id)
    /\ RowsOnly

handleUpdateOutput(id, output) ==
    /\ Rendered
    /\ rows' = [i \in 1..Len(rows) |->
                  IF rows[i].id = id THEN [rows[i] EXCEPT !.output = output] ELSE rows[i]]
    /\ last' = Ran("handleUpdateOutput", "set", id)
    /\ RowsOnly

InputCategories == {"facts", "concepts", "opinions", "examples", "other"}

handleUpdatePrompt(id, field, value) ==
    LET change(row) == [row EXCEPT !.aiPrompt = [row.aiPrompt EXCEPT ![field] = value]]
    IN /\ Rendered
       /\ rows' = [i \in 1..Len(rows) |->
                     IF rows[i].id = id THEN change(rows[i]) ELSE rows[i]]
       /\ last' = Ran("handleUpdatePrompt", "set", id)
       /\ RowsOnly

handleToggleExpand(id) ==
    LET change(row) == [row EXCEPT !.isExpanded = ~row.isExpanded]
    IN /\ Rendered
       /\ rows' = [i \in 1..Len(rows) |->
                     IF rows[i].id = id THEN change(rows[i]) ELSE rows[i]]
       /\ last' = Ran("handleToggleExpand", "set", id)
       /\ RowsOnly

handleToggleInputExpand(id, category) ==
    LET change(row) ==
            [row EXCEPT !.expandedInputs =
                [row.expandedInputs EXCEPT ![category] = ~row.expandedInputs[category]]]
    IN /\ Rendered
       /\ rows' = [i \in 1..Len(rows) |->
                     IF rows[i].id = id THEN change(rows[i]) ELSE rows[i]]
       /\ last' = Ran("handleToggleInputExpand", "set", id)
       /\ RowsOnly

\* index counts from 0, as in the code
handleUpdateSectionInput(id, category, index, value) ==
    LET change(row) ==
            [row EXCEPT !.sectionInputs =
                [row.sectionInputs EXCEPT ![category] =
                    [i \in 1..Len(row.sectionInputs[category]) |->
                        IF i - 1 = index THEN value ELSE row.sectionInputs[category][i]]]]
    IN /\ Rendered
       /\ rows' = [i \in 1..Len(rows) |->
                     IF rows[i].id = id THEN change(rows[i]) ELSE rows[i]]
       /\ last' = Ran("handleUpdateSectionInput", "set", id)
       /\ RowsOnly

handleAddSectionInput(id, category) ==
    LET change(row) ==
            [row EXCEPT !.sectionInputs =
                [row.sectionInputs EXCEPT ![category] = Append(row.sectionInputs[category], <<>>)]]
    IN /\ Rendered
       /\ \A i \in 1..Len(rows) :
             rows[i].id = id => Len(rows[i].sectionInputs[category]) < MaxSectionInputs
       /\ rows' = [i \in 1..Len(rows) |->
                     IF rows[i].id = id THEN change(rows[i]) ELSE rows[i]]
       /\ last' = Ran("handleAddSectionInput", "added", id)
       /\ RowsOnly

\* index counts from 0, as in the code
handleRemoveSectionInput(id, category, index) ==
    LET without(inputs) ==
            SubSeq(inputs, 1, index) \o SubSeq(inputs, index + 2, Len(inputs))
        change(row) ==
            [row EXCEPT !.sectionInputs =
                [row.sectionInputs EXCEPT ![category] =
                    IF index + 1 \in 1..Len(row.sectionInputs[category])
                    THEN without(row.sectionInputs[category])
                    ELSE row.sectionInputs[category]]]
    IN /\ Rendered
       /\ rows' = [i \in 1..Len(rows) |->
                     IF rows[i].id = id THEN change(rows[i]) ELSE rows[i]]
       /\ last' = Ran("handleRemoveSectionInput", "removed", id)
       /\ RowsOnly

\* DocumentGrid.handleFileUpload up to its await: a file is chosen with the
\* file input of an unfolded section, and file.text() is pending.
handleFileUpload(text) ==
    /\ Rendered
    /\ \E i \in 1..Len(rows) : rows[i].isExpanded
    /\ BagCardinality(imports) < MaxImports
    /\ imports' = imports (+) SetToBag({text})
    /\ last' = Ran("handleFileUpload", "reading", NoId)
    /\ UNCHANGED <<now, sdk, sdkChanges, isAiInitialized, appVars, db, dbSeq, ls, loadFlow,
                   opFlow, gens, modalVars, saved>>

\* DocumentGrid.handleFileUpload after its await, file.text() resolved:
\* onImportDocument is called with the text, and handleImportDocument runs
\* in whatever mode the session is in by then.
handleImportDocument(text) ==
    /\ BagIn(text, imports)
    /\ imports' = imports (-) SetToBag({text})
    /\ IF rows # <<>> /\ trim(rows[Len(rows)].input) = <<>>
       THEN /\ rows' = [rows EXCEPT ![Len(rows)].input = text]
            /\ last' = Ran("handleImportDocument", "filled", NoId)
       ELSE /\ Len(rows) < MaxRows
            /\ rows' = Append(rows, createInitialRow(now, text, <<>>))
            /\ last' = Ran("handleImportDocument", "appended", NoId)
    /\ UNCHANGED <<operatingMode, appError, savedDocuments, currentDocumentId>>
    /\ AutoSave(ls)
    /\ ModalEffect(TRUE)
    /\ UNCHANGED <<now, sdk, sdkChanges, isAiInitialized, db, dbSeq, loadFlow, opFlow, gens,
                   saved>>

\* DocumentGrid.handleFileUpload after its await, file.text() rejected: the
\* catch logs.
handleFileUploadFailed(text) ==
    /\ BagIn(text, imports)
    /\ imports' = imports (-) SetToBag({text})
    /\ last' = Ran("handleFileUpload", "read-failed", NoId)
    /\ UNCHANGED <<now, sdk, sdkChanges, isAiInitialized, appVars, db, dbSeq, ls, loadFlow,
                   opFlow, gens, modalVars, saved>>

\* ---------------------------------------------------------- document handlers

\* What a handler leaves alone that touches neither the remote side nor
\* the environment.
LocalOnly ==
    UNCHANGED <<now, sdk, sdkChanges, isAiInitialized, db, dbSeq, loadFlow, opFlow, gens, imports>>

\* handleSaveDocument, local branch.  The updater given to setSavedDocuments
\* assigns newDocId; React runs an updater either at once (eager) or in the
\* next render, after the comparison of newDocId with currentDocumentId.
saveToLocalStorage(trimmedTitle, eager) ==
    LET existingDocIndex ==
            IF currentDocumentId # NoId THEN findIndex(savedDocuments, currentDocumentId) ELSE 0
        newDoc == [id |-> now, title |-> trimmedTitle, rows |-> rows,
                   createdAt |-> now, updatedAt |-> now]
        written == IF existingDocIndex > 0
                   THEN [savedDocuments[existingDocIndex] EXCEPT
                           !.title = trimmedTitle, !.rows = rows, !.updatedAt = now]
                   ELSE newDoc
        updatedDocs == IF existingDocIndex > 0
                       THEN [savedDocuments EXCEPT ![existingDocIndex] = written]
                       ELSE Append(savedDocuments, newDoc)
        newDocId == IF existingDocIndex = 0 /\ eager THEN newDoc.id ELSE currentDocumentId
    IN /\ existingDocIndex = 0 => Len(savedDocuments) < MaxDocs
       /\ savedDocuments' = sortByUpdatedAt(updatedDocs)
       /\ currentDocumentId' = newDocId
       /\ UNCHANGED <<operatingMode, appError, rows>>
       /\ saved' = [done |-> TRUE, doc |-> written, rows |-> rows]
       /\ last' = Ran("handleSaveDocument",
                      IF existingDocIndex > 0 THEN "local-updated" ELSE "local-created",
                      trimmedTitle)

\* A Save that checks neither the title nor the mode.
handleSaveDocumentUnchecked(title) ==
    /\ \E eager \in BOOLEAN : saveToLocalStorage(trim(title), eager)
    /\ AutoSave(ls)
    /\ ModalEffect(FALSE)
    /\ LocalOnly

\* How many of the saves in flight are still to insert a row.
pendingInserts ==
    Cardinality({k \in DOMAIN opFlow :
                   /\ opFlow[k].pc \in {"saveGetUser", "saveWrite"}
                   /\ opFlow[k].currentDocumentId = NoId})

handleSaveDocument(title) ==
    LET trimmedTitle == trim(title)
    IN IF trimmedTitle = <<>>
       THEN /\ last' = Ran("handleSaveDocument", "blank-title", title)
            /\ UNCHANGED <<appVars, ls, modalVars, saved, opFlow>>
            /\ UNCHANGED <<now, sdk, sdkChanges, isAiInitialized, db, dbSeq, loadFlow, gens, imports>>
       ELSE IF operatingMode = "supabase" /\ sdk = "ready"
       THEN /\ Len(opFlow) < MaxRequests
            /\ currentDocumentId = NoId => dbSeq + pendingInserts < MaxDocs
            /\ operatingMode' = "loading"
            /\ opFlow' = Append(opFlow,
                                [pc |-> "saveGetUser", op |-> "handleSaveDocument",
                                 title |-> trimmedTitle, rows |-> rows,
                                 currentDocumentId |-> currentDocumentId, id |-> NoId])
            /\ last' = Ran("handleSaveDocument", "pending",
                           [id |-> NoId, currentDocumentId |-> currentDocumentId])
            /\ UNCHANGED <<appError, rows, savedDocuments, currentDocumentId, saved>>
            /\ AutoSave(ls)
            /\ ModalEffect(FALSE)
            /\ UNCHANGED <<now, sdk, sdkChanges, isAiInitialized, db, dbSeq, loadFlow, gens, imports>>
       ELSE IF operatingMode = "local"
       THEN /\ \E eager \in BOOLEAN : saveToLocalStorage(trimmedTitle, eager)
            /\ AutoSave(ls)
            /\ ModalEffect(FALSE)
            /\ LocalOnly
       ELSE /\ appError' = "Cannot save document. Application is not in a valid state."
            /\ last' = Ran("handleSaveDocument", "invalid-state", trimmedTitle)
            /\ UNCHANGED <<operatingMode, rows, savedDocuments, currentDocumentId, saved>>
            /\ AutoSave(ls)
            /\ ModalEffect(FALSE)
            /\ LocalOnly

\* An Open that keeps the sections on screen.
handleOpenDocumentKeepingRows(document) ==
    /\ Rendered
    /\ currentDocumentId' = document.id
    /\ UNCHANGED <<operatingMode, appError, savedDocuments, saved, rows>>
    /\ last' = Ran("handleOpenDocument", "opened", [document |-> document, rows |-> rows])
    /\ AutoSave(ls)
    /\ ModalEffect(TRUE)
    /\ LocalOnly

\* An Open that stamps the opened document in the list.
handleOpenDocumentStamping(document) ==
    /\ Rendered
    /\ rows' = document.rows
    /\ currentDocumentId' = document.id
    /\ savedDocuments' = [i \in 1..Len(savedDocuments) |->
                            IF savedDocuments[i].id = document.id
                            THEN [savedDocuments[i] EXCEPT !.updatedAt = now + 1]
                            ELSE savedDocuments[i]]
    /\ UNCHANGED <<operatingMode, appError, saved>>
    /\ last' = Ran("handleOpenDocument", "opened", [document |-> document, rows |-> rows])
    /\ AutoSave(ls)
    /\ ModalEffect(TRUE)
    /\ LocalOnly

\* setRows(document.rows) passes the array the document holds.  When the
\* sections on screen are equal to it they are either that very array (the
\* document was saved from them or opened before), and then no effect on
\* rows runs, or an equal array made by a handler since, and then it runs.
handleOpenDocument(document) ==
    /\ Rendered
    /\ rows' = document.rows
    /\ currentDocumentId' = document.id
    /\ UNCHANGED <<operatingMode, appError, savedDocuments, saved>>
    /\ last' = Ran("handleOpenDocument", "opened", [document |-> document, rows |-> rows])
    /\ AutoSave(ls)
    /\ \E sameArray \in {b \in BOOLEAN : b => document.rows = rows} : ModalEffect(~sameArray)
    /\ LocalOnly

handleNewDocument ==
    /\ Rendered
    /\ currentDocumentId' = NoId
    /\ rows' = <<createInitialRow(now, <<>>, <<>>)>>
    /\ UNCHANGED <<operatingMode, appError, savedDocuments, saved>>
    /\ last' = Ran("handleNewDocument", "reset", NoId)
    /\ AutoSave(ls)
    /\ ModalEffect(TRUE)
    /\ LocalOnly

\* A local branch of handleDeleteDocument that forgets the open document.
deleteFromLocalStorageKeepingOpen(id) ==
    /\ savedDocuments' = filterOutId(savedDocuments, id)
    /\ UNCHANGED <<currentDocumentId, rows>>
    /\ UNCHANGED <<operatingMode, appError>>

\* handleDeleteDocument, local branch
deleteFromLocalStorage(id) ==
    /\ savedDocuments' = filterOutId(savedDocuments, id)
    /\ IF currentDocumentId = id
       THEN currentDocumentId' = NoId /\ rows' = <<createInitialRow(now, <<>>, <<>>)>>
       ELSE UNCHANGED <<currentDocumentId, rows>>
    /\ UNCHANGED <<operatingMode, appError>>

handleDeleteDocument(id) ==
    IF operatingMode = "supabase" /\ sdk = "ready"
    THEN /\ Len(opFlow) < MaxRequests
         /\ operatingMode' = "loading"
         /\ opFlow' = Append(opFlow,
                             [pc |-> "deleteWrite", op |-> "handleDeleteDocument",
                              title |-> <<>>, rows |-> rows,
                              currentDocumentId |-> currentDocumentId, id |-> id])
         /\ last' = Ran("handleDeleteDocument", "pending",
                        [id |-> id, currentDocumentId |-> currentDocumentId])
         /\ UNCHANGED <<appError, rows, savedDocuments, currentDocumentId, saved>>
         /\ AutoSave(ls)
         /\ ModalEffect(FALSE)
         /\ UNCHANGED <<now, sdk, sdkChanges, isAiInitialized, db, dbSeq, loadFlow, gens, imports>>
    ELSE IF operatingMode = "local"
    THEN /\ deleteFromLocalStorage(id)
         /\ last' = Ran("handleDeleteDocument", "local",
                        [id |-> id, currentDocumentId |-> currentDocumentId])
         /\ UNCHANGED saved
         /\ AutoSave(ls)
         /\ ModalEffect(currentDocumentId = id)
         /\ LocalOnly
    ELSE /\ appError' = "Cannot delete document. Application is not in a valid state."
         /\ last' = Ran("handleDeleteDocument", "invalid-state",
                        [id |-> id, currentDocumentId |-> currentDocumentId])
         /\ UNCHANGED <<operatingMode, rows, savedDocuments, currentDocumentId, saved>>
         /\ AutoSave(ls)
         /\ ModalEffect(FALSE)
         /\ LocalOnly

\* The onSave and onDelete props of DocumentManageModal, which is rendered
\* in "supabase" and "local" mode only.
onSave(title) == Rendered /\ handleSaveDocument(title)

onDelete(id) == Rendered /\ handleDeleteDocument(id)

\* ------------------------------------------------- remote requests in flight

\* The arguments of a request in flight: the id given to the handler and
\* the currentDocumentId of the render the handler ran in.
flowArg(flow) == [id |-> flow.id, currentDocumentId |-> flow.currentDocumentId]

\* The requests in flight without the k-th, which has ended.
RemoveAt(flows, k) == SubSeq(flows, 1, k - 1) \o SubSeq(flows, k + 1, Len(flows))

\* A step in which the k-th request in flight ends.
FlowEnds(k) == opFlow' = RemoveAt(opFlow, k)

\* A step in which a loadFromSupabase call of the effect ends.
LoadEnds == loadFlow'.getUser + loadFlow'.select < loadFlow.getUser + loadFlow.select

\* What a step of a request in flight leaves alone.
FlowOnly ==
    /\ AutoSave(ls)
    /\ UNCHANGED <<now, sdk, sdkChanges, isAiInitialized, loadFlow, gens, imports, saved>>

\* The catch branch of handleSaveDocument and handleDeleteDocument
requestFailed(k, message) ==
    /\ appError' = message
    /\ operatingMode' = "error"
    /\ opFlow' = RemoveAt(opFlow, k)
    /\ last' = Ran(opFlow[k].op, "request-failed", flowArg(opFlow[k]))
    /\ UNCHANGED <<rows, savedDocuments, currentDocumentId, db, dbSeq>>

\* handleSaveDocument: auth.getUser answers
SaveGetUser ==
    \E k \in DOMAIN opFlow :
      /\ opFlow[k].pc = "saveGetUser"
      /\ \E ok \in BOOLEAN :
           IF ok
           THEN /\ opFlow' = [opFlow EXCEPT ![k].pc = "saveWrite"]
                /\ last' = Ran(opFlow[k].op, "pending", flowArg(opFlow[k]))
                /\ UNCHANGED <<appVars, db, dbSeq>>
           ELSE requestFailed(k, "User not authenticated.")
      /\ ModalEffect(FALSE)
      /\ FlowOnly

\* update(documentData).eq('id', currentDocumentId).select().single(): the
\* trigger sets updated_at; no row with that id is an error.
updateDocument(table, id, title, rs) ==
    [i \in 1..Len(table) |->
       IF table[i].id = id
       THEN [table[i] EXCEPT !.title = title, !.rows = rs, !.updated_at = now]
       ELSE table[i]]

\* insert(documentData).select().single(): id, created_at and updated_at
\* are the defaults of the table; remote ids are written as negative numbers.
insertDocument(table, title, rs) ==
    Append(table, [id |-> 0 - (dbSeq + 1), user_id |-> "user", title |-> title,
                   rows |-> rs, created_at |-> now, updated_at |-> now])

\* handleSaveDocument: the update or insert answers, and on success
\* loadFromSupabase is called.
SaveWrite ==
    \E k \in DOMAIN opFlow :
      LET flow == opFlow[k]
      IN /\ flow.pc = "saveWrite"
         /\ \/ /\ flow.currentDocumentId # NoId
               /\ findIndex(db, flow.currentDocumentId) > 0
               /\ db' = updateDocument(db, flow.currentDocumentId, flow.title, flow.rows)
               /\ operatingMode' = "loading"
               /\ opFlow' = [opFlow EXCEPT ![k].pc = "loadGetUser"]
               /\ last' = Ran(flow.op, "pending", flowArg(flow))
               /\ UNCHANGED <<appError, rows, savedDocuments, currentDocumentId, dbSeq>>
            \/ /\ flow.currentDocumentId = NoId
               /\ db' = insertDocument(db, flow.title, flow.rows)
               /\ dbSeq' = dbSeq + 1
               /\ currentDocumentId' = 0 - (dbSeq + 1)
               /\ operatingMode' = "loading"
               /\ opFlow' = [opFlow EXCEPT ![k].pc = "loadGetUser"]
               /\ last' = Ran(flow.op, "pending", flowArg(flow))
               /\ UNCHANGED <<appError, rows, savedDocuments>>
            \/ requestFailed(k, "Failed to save document to Supabase.")
         /\ ModalEffect(FALSE)
         /\ FlowOnly

\* handleDeleteDocument: the delete answers, and on success the open
\* document is reset and loadFromSupabase is called.
DeleteWrite ==
    \E k \in DOMAIN opFlow :
      LET flow == opFlow[k]
      IN /\ flow.pc = "deleteWrite"
         /\ \/ /\ db' = filterOutId(db, flow.id)
               /\ IF flow.currentDocumentId = flow.id
                  THEN currentDocumentId' = NoId /\ rows' = <<createInitialRow(now, <<>>, <<>>)>>
                  ELSE UNCHANGED <<currentDocumentId, rows>>
               /\ operatingMode' = "loading"
               /\ opFlow' = [opFlow EXCEPT ![k].pc = "loadGetUser"]
               /\ last' = Ran(flow.op, "pending", flowArg(flow))
               /\ UNCHANGED <<appError, savedDocuments, dbSeq>>
            \/ requestFailed(k, "Failed to delete document from Supabase.")
         /\ ModalEffect(FALSE)
         /\ FlowOnly

\* loadFromSupabase called by a save or delete: auth.getUser answers
OpLoadGetUser ==
    \E k \in DOMAIN opFlow :
      /\ opFlow[k].pc = "loadGetUser"
      /\ \E ok \in BOOLEAN :
           IF ok
           THEN /\ opFlow' = [opFlow EXCEPT ![k].pc = "loadSelect"]
                /\ last' = Ran(opFlow[k].op, "pending", flowArg(opFlow[k]))
                /\ UNCHANGED appVars
           ELSE /\ loadFailed
                /\ opFlow' = RemoveAt(opFlow, k)
                /\ last' = Ran(opFlow[k].op, "refresh-failed", flowArg(opFlow[k]))
      /\ ModalEffect(FALSE)
      /\ UNCHANGED <<db, dbSeq>>
      /\ FlowOnly

\* loadFromSupabase called by a save or delete: the select answers
OpLoadSelect ==
    \E k \in DOMAIN opFlow :
      /\ opFlow[k].pc = "loadSelect"
      /\ opFlow' = RemoveAt(opFlow, k)
      /\ \/ /\ \E data \in selectDocuments : loadSucceeded(data)
            /\ last' = Ran(opFlow[k].op, "completed", flowArg(opFlow[k]))
         \/ /\ loadFailed
            /\ last' = Ran(opFlow[k].op, "refresh-failed", flowArg(opFlow[k]))
      /\ ModalEffect(operatingMode' = "supabase")
      /\ UNCHANGED <<db, dbSeq>>
      /\ FlowOnly

\* ------------------------------------------------------------- generation

\* What the generation collaborator may answer.
Answers == {"content", "empty", "failed"}

\* generateText: the string it returns for an answer of the collaborator
generateText(answer) ==
    CASE answer = "content" -> <<"a">>
      [] answer = "empty" -> <<"Error: No content received from API.">>
      [] OTHER -> <<"Error generating text: ", "message">>

\* handleGenerateText up to its await.  The Generate button of a section is
\* disabled while the section is loading.
handleGenerateText(id) ==
    /\ Rendered
    /\ IF ~isAiInitialized
       THEN /\ rows' = [i \in 1..Len(rows) |->
                          IF rows[i].id = id
                          THEN [rows[i] EXCEPT !.error = "OpenAI client not initialized.",
                                               !.isLoading = FALSE]
                          ELSE rows[i]]
            /\ last' = Ran("handleGenerateText", "not-initialized", id)
            /\ UNCHANGED gens
       ELSE /\ id \in rowIds
            /\ BagCardinality(gens) < MaxPending
            /\ \E i \in 1..Len(rows) : rows[i].id = id /\ ~rows[i].isLoading
            /\ rows' = [i \in 1..Len(rows) |->
                          IF rows[i].id = id
                          THEN [rows[i] EXCEPT !.isLoading = TRUE, !.error = NoError]
                          ELSE rows[i]]
            /\ gens' = gens (+) SetToBag({id})
            /\ last' = Ran("handleGenerateText", "requested", id)
    /\ UNCHANGED <<operatingMode, appError, savedDocuments, currentDocumentId>>
    /\ AutoSave(ls)
    /\ ModalEffect(TRUE)
    /\ UNCHANGED <<now, sdk, sdkChanges, isAiInitialized, db, dbSeq, loadFlow, opFlow, imports,
                   saved>>

\* handleGenerateText after its await: generateText returned
GenerateTextDone(id, answer) ==
    /\ BagIn(id, gens)
    /\ gens' = gens (-) SetToBag({id})
    /\ rows' = [i \in 1..Len(rows) |->
                  IF rows[i].id = id
                  THEN [rows[i] EXCEPT !.output = generateText(answer), !.isLoading = FALSE]
                  ELSE rows[i]]
    /\ last' = Ran("handleGenerateText", answer, id)
    /\ UNCHANGED <<operatingMode, appError, savedDocuments, currentDocumentId>>
    /\ AutoSave(ls)
    /\ ModalEffect(TRUE)
    /\ UNCHANGED <<now, sdk, sdkChanges, isAiInitialized, db, dbSeq, loadFlow, opFlow, imports,
                   saved>>

\* --------------------------------------------------------- FullDocumentModal

Mounted == Rendered

ModalOnly ==
    UNCHANGED <<now, sdk, sdkChanges, isAiInitialized, operatingMode, appError, savedDocuments,
                currentDocumentId, db, dbSeq, loadFlow, opFlow, gens, imports, saved>>

\* setViewMode; the merge effect runs when the view becomes continuous.
setViewMode(mode) ==
    /\ Mounted
    /\ viewMode' = mode
    /\ IF mode = "continuous" /\ viewMode # "continuous"
       THEN continuousContent' = combinedHtml(rows) /\ syncStatus' = IdleStatus
       ELSE UNCHANGED <<continuousContent, syncStatus>>
    /\ last' = Ran("setViewMode", mode, NoId)
    /\ UNCHANGED <<rows, ls>>
    /\ ModalOnly

handleContinuousChange(htmlContent) ==
    /\ Mounted
    /\ viewMode = "continuous"
    /\ continuousContent' = htmlContent
    /\ syncStatus' = IdleStatus
    /\ last' = Ran("handleContinuousChange", "edited", NoId)
    /\ UNCHANGED <<rows, ls, viewMode>>
    /\ ModalOnly

\* The timer the effect on syncStatus starts: 4000 ms after the status
\* became "success" or "error" it is set back to idle.
syncStatusTimeout ==
    /\ Mounted
    /\ syncStatus.type \in {"success", "error"}
    /\ syncStatus' = IdleStatus
    /\ UNCHANGED <<rows, ls, viewMode, continuousContent, last>>
    /\ ModalOnly

\* A Sync that applies what it parsed whatever the number of sections.
handleSyncContinuousChangesUnvalidated ==
    LET data == newSectionsData(continuousContent)
    IN /\ Mounted
       /\ viewMode = "continuous"
       /\ rows' = [i \in 1..Len(data) |->
                     [createInitialRow(i, <<>>, <<>>) EXCEPT
                        !.title = data[i].title, !.output = data[i].outputHTML]]
       /\ last' = Ran("handleSyncContinuousChanges",
                      IF Len(data) # Len(rows) THEN "aborted" ELSE "synced", rows)
       /\ viewMode' = viewMode
       /\ continuousContent' = combinedHtml(rows')
       /\ syncStatus' = IdleStatus
       /\ ModalOnly
       /\ AutoSave(ls)

\* A Sync that reports a mismatch and still applies the sections it parsed
\* to the rows that have one.
handleSyncContinuousChangesPartial ==
    LET data == newSectionsData(continuousContent)
    IN /\ Mounted
       /\ viewMode = "continuous"
       /\ IF Len(data) # Len(rows)
          THEN /\ syncStatus' = [type |-> "error",
                                 message |-> <<"Parsing resulted in", Len(data),
                                               "sections, but expected", Len(rows)>>]
               /\ last' = Ran("handleSyncContinuousChanges", "aborted", rows)
               /\ rows' = [i \in 1..Len(rows) |->
                             IF i <= Len(data)
                             THEN [rows[i] EXCEPT !.title = data[i].title,
                                                  !.output = data[i].outputHTML]
                             ELSE rows[i]]
               /\ UNCHANGED <<viewMode, continuousContent>>
               /\ ModalOnly
               /\ AutoSave(ls)
          ELSE /\ rows' = updatedRows(rows, data)
               /\ last' = Ran("handleSyncContinuousChanges", "synced", rows)
               /\ viewMode' = viewMode
               /\ continuousContent' = combinedHtml(rows')
               /\ syncStatus' = IdleStatus
               /\ ModalOnly
               /\ AutoSave(ls)

\* handleSyncContinuousChanges (its button exists in continuous view), with
\* the merge effect that follows onUpdateAllRows.  The history keeps the
\* sections the handler was given.
handleSyncContinuousChanges ==
    LET data == newSectionsData(continuousContent)
    IN /\ Mounted
       /\ viewMode = "continuous"
       /\ IF Len(data) # Len(rows)
          THEN /\ syncStatus' = [type |-> "error",
                                 message |-> <<"Parsing resulted in", Len(data),
                                               "sections, but expected", Len(rows)>>]
               /\ last' = Ran("handleSyncContinuousChanges", "aborted", rows)
               /\ UNCHANGED <<rows, ls, viewMode, continuousContent>>
               /\ ModalOnly
          ELSE /\ rows' = updatedRows(rows, data)
               /\ last' = Ran("handleSyncContinuousChanges", "synced", rows)
               /\ viewMode' = viewMode
               /\ continuousContent' = combinedHtml(rows')
               /\ syncStatus' = IdleStatus
               /\ ModalOnly
               /\ AutoSave(ls)

\* ------------------------------------------------------------ the session

NoStorage == [rows |-> NoItem, docs |-> NoItem, cur |-> NoItem, full |-> FALSE]

\* The state when App has mounted and initializeOpenAI has returned (ai) or
\* thrown (not ai).
InitSession(ai) ==
    /\ now = 1
    /\ sdk = "loading"
    /\ sdkChanges = 0
    /\ isAiInitialized = ai
    /\ operatingMode = "loading"
    /\ appError = "null"
    /\ rows = <<createInitialRow(1, <<>>, <<>>)>>
    /\ savedDocuments = <<>>
    /\ currentDocumentId = NoId
    /\ db = <<>>
    /\ dbSeq = 0
    /\ ls = NoStorage
    /\ loadFlow = NoLoads
    /\ opFlow = <<>>
    /\ gens = EmptyBag
    /\ imports = EmptyBag
    /\ viewMode = "sections"
    /\ continuousContent = <<>>
    /\ syncStatus = IdleStatus
    /\ last = NoneRan
    /\ saved = NoSave

Init == InitSession(TRUE)

\* Inputs of the handlers
ImportTexts == {<<"d">>}
SaveTitles == {<<"t">>, <<" ">>}

Next ==
    \/ Tick
    \/ SdkLoaded
    \/ EffectLoadGetUser
    \/ EffectLoadSelect
    \/ handleAddRow
    \/ \E id \in rowIds : handleDeleteRow(id)
    \/ \E title \in SaveTitles : onSave(title)
    \/ SaveGetUser
    \/ SaveWrite
    \/ \E i \in 1..Len(savedDocuments) : handleOpenDocument(savedDocuments[i])
    \/ \E i \in 1..Len(savedDocuments) : onDelete(savedDocuments[i].id)
    \/ DeleteWrite
    \/ OpLoadGetUser
    \/ OpLoadSelect
    \/ handleNewDocument

Spec == Init /\ [][Next]_vars

\* ------------------------------------------------- properties of the session

\* A single default section: what createInitialRow returns at some reading
\* of the clock.
IsDefaultRows(rs) == \E t \in 1..MaxClock : rs = <<createInitialRow(t, <<>>, <<>>)>>

\* C1: in every reachable state the list of sections has at least one section.
C1_AtLeastOneSection == Len(rows) >= 1

\* C2: when a document written by the latest local Save is opened, the
\* sections on screen are the sections as they were at that Save.
C2_OpenRestoresSavedSections ==
    (last.op = "handleOpenDocument" /\ saved.done /\ last.arg.document = saved.doc)
        => rows = saved.rows

\* C2 happens: the saved document was opened while other sections were on
\* screen.
C2_Witness ==
    /\ last.op = "handleOpenDocument"
    /\ saved.done
    /\ last.arg.document = saved.doc
    /\ last.arg.rows # saved.rows
    /\ operatingMode = "local"

\* The state a Delete of the open document is claimed to end in.
OpenDocumentReset == currentDocumentId = NoId /\ IsDefaultRows(rows)

\* A Delete of the document that was open when it was requested has ended.
DeletedOpenDocument(branches) ==
    /\ last.op = "handleDeleteDocument"
    /\ last.branch \in branches
    /\ last.arg.id = last.arg.currentDocumentId

\* C3 as stated: every Delete of the open document, in local and in remote
\* mode, ends with no open document and a single default section.
C3_DeleteAlwaysResets ==
    DeletedOpenDocument({"local", "completed", "refresh-failed", "request-failed"})
        => OpenDocumentReset

\* C3: a Delete of the open document ends with no open document and a
\* single default section in local mode, and in remote mode when the delete
\* request succeeded (whether or not the refresh that follows succeeds).
C3_DeleteResetsUnlessRequestFails ==
    DeletedOpenDocument({"local", "completed", "refresh-failed"}) => OpenDocumentReset

\* C3 happens: a remote Delete of the open document has completed.
C3_Witness == DeletedOpenDocument({"completed"}) /\ operatingMode = "supabase"

\* C7: a local Save with a non-blank title and no open document adds exactly
\* one document with that title and the current sections, and binds the open
\* document to the id of the new document.
C7_LocalSaveBindsNewDocument ==
    [][\A title \in SaveTitles :
         (/\ operatingMode = "local"
          /\ currentDocumentId = NoId
          /\ trim(title) # <<>>
          /\ handleSaveDocument(title))
         => /\ Len(savedDocuments') = Len(savedDocuments) + 1
            /\ \E i \in 1..Len(savedDocuments') :
                 /\ savedDocuments'[i].title = trim(title)
                 /\ savedDocuments'[i].rows = rows
                 /\ filterOutId(savedDocuments', savedDocuments'[i].id)
                      = filterOutId(savedDocuments, savedDocuments'[i].id)
                 /\ currentDocumentId' = savedDocuments'[i].id]_vars

\* C9: deleting a section when it is the only one changes nothing: the
\* sections, the documents and what is stored stay as they were.
C9_SoleSectionKept ==
    [][\A id \in rowIds :
         (Len(rows) = 1 /\ handleDeleteRow(id))
         => (rows' = rows /\ Len(rows') = 1 /\ UNCHANGED <<appVars, ls>>)]_vars

\* C9 happens: a Delete was asked for the only section.
C9_Witness ==
    last.op = "handleDeleteRow" /\ last.branch = "kept" /\ Len(rows) = 1

\* --------------------------------------- the session while the SDK changes

\* The session with a connection state that changes after it has loaded:
\* the documents are saved and new ones begun while it does.
NextModes ==
    \/ SdkLoaded
    \/ SdkChange
    \/ EffectLoadGetUser
    \/ EffectLoadSelect
    \/ \E title \in SaveTitles : onSave(title)
    \/ SaveGetUser
    \/ SaveWrite
    \/ \E i \in 1..Len(savedDocuments) : onDelete(savedDocuments[i].id)
    \/ DeleteWrite
    \/ OpLoadGetUser
    \/ OpLoadSelect
    \/ handleNewDocument

SpecModes == Init /\ [][NextModes]_vars

\* C10: once the mode has been "local" or "error" it is never "supabase"
\* again, whatever the connection state and the later operations do.
C10_NeverRemoteAgain == last.beenLocalOrError => operatingMode # "supabase"


\* ------------------------------------------------------ the continuous view

\* Titles and bodies of the documents the continuous view is opened on: a
\* blank title and a title of text; a blank body, a body of one paragraph
\* and a body that holds a heading.
SyncTitles == {<<>>, <<"A">>}
SyncBodies == {<<>>, <<"<p>">>, <<"<h2>">>}

\* Tokens an edit of the merged markup puts in.
EditTokens == {"<h2>", "</h2>", "<hr>", "<p>", "x", " "}

\* A section list of n sections with the given titles and bodies; the ids
\* are the clock readings 1..n.
syncRows(n, titles, bodies) ==
    [i \in 1..n |-> [createInitialRow(i, <<>>, titles[i]) EXCEPT
                        !.title = titles[i], !.output = bodies[i]]]

\* The markup after one edit of the editor: a token removed or put in.
Edits(content) ==
    {SubSeq(content, 1, i - 1) \o SubSeq(content, i + 1, Len(content)) :
        i \in 1..Len(content)}
    \cup {SubSeq(content, 1, i) \o <<c>> \o SubSeq(content, i + 1, Len(content)) :
        i \in 0..Len(content), c \in EditTokens}

\* The documents the continuous view is opened on.
SyncDocuments ==
    UNION {{syncRows(n, titles, bodies) :
               titles \in [1..n -> SyncTitles], bodies \in [1..n -> SyncBodies]} :
           n \in 1..MaxSyncRows}

\* The session in local mode with the full document shown, on any document
\* of the bounded set.
InitSync ==
    /\ rows \in SyncDocuments
    /\ now = Len(rows)
    /\ sdk = "unavailable"
    /\ sdkChanges = 0
    /\ isAiInitialized = TRUE
    /\ operatingMode = "local"
    /\ appError = "null"
    /\ savedDocuments = <<>>
    /\ currentDocumentId = NoId
    /\ db = <<>>
    /\ dbSeq = 0
    /\ ls = setItem(setItem(setItem(NoStorage, "rows", rows), "docs", <<>>), "cur", NoId)
    /\ loadFlow = NoLoads
    /\ opFlow = <<>>
    /\ gens = EmptyBag
    /\ imports = EmptyBag
    /\ viewMode = "sections"
    /\ continuousContent = <<>>
    /\ syncStatus = IdleStatus
    /\ last = NoneRan
    /\ saved = NoSave

\* The user switches the view, edits once the freshly merged markup of a
\* document of the bounded set, and syncs.
NextSync ==
    \/ \E mode \in {"sections", "continuous"} : setViewMode(mode)
    \/ /\ rows \in SyncDocuments
       /\ continuousContent = combinedHtml(rows)
       /\ \E htmlContent \in Edits(continuousContent) : handleContinuousChange(htmlContent)
    \/ handleSyncContinuousChanges
    \/ syncStatusTimeout

SpecSync == InitSync /\ [][NextSync]_vars

\* ----------------------------------------- properties of the continuous view

\* Titles and bodies of a section list, position by position.
titlesAndBodies(rs) ==
    [i \in 1..Len(rs) |-> [title |-> rs[i].title, outputHTML |-> rs[i].output]]

\* C4: whenever the continuous view shows the merge of the sections, with
\* no edit made, splitting it returns as many sections, with the titles and
\* bodies of the originals position by position.
C4_SplitInvertsMerge ==
    (viewMode = "continuous" /\ continuousContent = combinedHtml(rows))
        => newSectionsData(continuousContent) = titlesAndBodies(rows)

\* The number of level-2 headings among the parsed nodes.
headingCount(content) ==
    Cardinality({i \in 1..Len(parsedNodes(content)) : parsedNodes(content)[i].nodeName = "H2"})

\* Content that is neither blank nor a rule stands before the first heading.
contentBeforeHeadings(content) ==
    LET nodes == parsedNodes(content)
    IN \E i \in 1..Len(nodes) :
         /\ nodes[i].nodeName \notin {"H2", "HR"}
         /\ trim(nodes[i].textContent) # <<>>
         /\ \A j \in 1..i : nodes[j].nodeName # "H2"

\* The number of sections derived from the markup: one per heading, and one
\* more for content that stands before the first heading.
derivedCount(content) ==
    headingCount(content) + (IF contentBeforeHeadings(content) THEN 1 ELSE 0)

\* A Sync that fails: the sections stay and the status is an error.
SyncRejected == rows' = rows /\ syncStatus'.type = "error"

\* C5 as stated: a Sync fails whenever the number of level-2 headings of the
\* markup differs from the number of sections.
C5_RejectsOnHeadingCount ==
    [][(handleSyncContinuousChanges /\ headingCount(continuousContent) # Len(rows))
       => SyncRejected]_vars

\* C5: a Sync fails whenever the number of derived sections (the headings,
\* plus one when content stands before the first heading) differs from the
\* number of sections.
C5_RejectsOnDerivedCount ==
    [][(handleSyncContinuousChanges /\ derivedCount(continuousContent) # Len(rows))
       => SyncRejected]_vars

\* C5 happens: a Sync was rejected on markup that has as many headings as
\* there are sections, but content before the first of them.
C5_Witness ==
    /\ last.op = "handleSyncContinuousChanges"
    /\ last.branch = "aborted"
    /\ syncStatus.type = "error"
    /\ headingCount(continuousContent) = Len(rows)
    /\ derivedCount(continuousContent) # Len(rows)

\* C6: a Sync that fails leaves the sections exactly as they were.
C6_FailedSyncKeepsSections ==
    [][(handleSyncContinuousChanges /\ syncStatus'.type = "error")
       => (rows' = rows /\ ls' = ls)]_vars

\* C6 happens: a Sync has failed on edited markup and the sections are the
\* ones it was given.
C6_Witness ==
    /\ last.op = "handleSyncContinuousChanges"
    /\ last.branch = "aborted"
    /\ syncStatus.type = "error"
    /\ continuousContent # combinedHtml(rows)
    /\ rows = last.arg

\* ------------------------------------------------------------- generation

\* The session with text generation: sections are added and deleted while
\* generations are pending.
InitGen == \E ai \in BOOLEAN : InitSession(ai)

NextGen ==
    \/ Tick
    \/ SdkLoaded
    \/ EffectLoadGetUser
    \/ EffectLoadSelect
    \/ handleAddRow
    \/ \E id \in rowIds : handleDeleteRow(id)
    \/ \E id \in rowIds : handleGenerateText(id)
    \/ \E id \in BagToSet(gens), answer \in Answers : GenerateTextDone(id, answer)

SpecGen == InitGen /\ [][NextGen]_vars

\* C8: when generateText comes back from an empty or failed answer of the
\* collaborator, the section gets an error, stops loading and keeps its
\* output.
C8_FailedGenerationSetsError ==
    [][\A id \in BagToSet(gens), answer \in {"empty", "failed"} :
         GenerateTextDone(id, answer)
         => \A i \in 1..Len(rows) :
              rows[i].id = id
              => /\ rows'[i].error # NoError
                 /\ rows'[i].isLoading = FALSE
                 /\ rows'[i].output = rows[i].output]_vars

\* ------------------------------------------------------ the section editors

\* Inputs of the section editors: the categories of notes that are folded
\* and unfolded, the category whose notes are edited, the prompt setting
\* that is chosen, and the text of a note.
FoldedCategories == {"facts", "other"}
NoteCategories == {"facts"}
PromptEdits == {<<"tone", "casual">>, <<"tone", "professional">>}
NoteTexts == {<<"n">>}

\* The session in which the sections are edited: the prompt settings, the
\* notes and what is unfolded, in local and in remote mode.
NextEdits ==
    \/ Tick
    \/ SdkLoaded
    \/ EffectLoadGetUser
    \/ EffectLoadSelect
    \/ handleAddRow
    \/ \E id \in rowIds : handleDeleteRow(id)
    \/ \E id \in rowIds, edit \in PromptEdits : handleUpdatePrompt(id, edit[1], edit[2])
    \/ \E id \in rowIds : handleToggleExpand(id)
    \/ \E id \in rowIds, category \in FoldedCategories : handleToggleInputExpand(id, category)
    \/ \E id \in rowIds, category \in NoteCategories, index \in 0..(MaxSectionInputs - 1),
          value \in NoteTexts : handleUpdateSectionInput(id, category, index, value)
    \/ \E id \in rowIds, category \in NoteCategories : handleAddSectionInput(id, category)
    \/ \E id \in rowIds, category \in NoteCategories, index \in 0..(MaxSectionInputs - 1) :
          handleRemoveSectionInput(id, category, index)

SpecEdits == Init /\ [][NextEdits]_vars

\* ------------------------------------------------ properties of the modes

\* C11: after the mode has been "supabase" it is never "local": the
\* session falls back to the local store only during the first load.
C11_NeverLocalAfterRemote == last.beenSupabase => operatingMode # "local"

\* Initialize has ended without the remote store: useSupabase gave no
\* client, or loadFromSupabase failed at auth.getUser or at the select.
InitializeWithoutRemote ==
    \/ last.op = "modeSelection" /\ last.branch \in {"unavailable", "error"}
    \/ last.op = "loadFromSupabase" /\ last.branch = "failed"

\* C12: when Initialize cannot use the remote store, for whichever of the
\* reasons, the session ends in local mode.
C12_InitializeFallsBackToLocal == InitializeWithoutRemote => operatingMode = "local"

\* ---------------------------------------------- properties of remote saves

\* A Save issued in remote mode has completed: the write and the refresh
\* that follows it succeeded.
RemoteSaveCompleted == last.op = "handleSaveDocument" /\ last.branch = "completed"

\* C13: when a remote Save has completed, the open document is bound to a
\* row of the remote table: the row that was open when the Save was asked
\* for, or else the row the Save inserted.
C13_RemoteSaveBindsSavedRow ==
    RemoteSaveCompleted
        => /\ currentDocumentId # NoId
           /\ findIndex(db, currentDocumentId) > 0
           /\ last.arg.currentDocumentId # NoId
                => currentDocumentId = last.arg.currentDocumentId

\* A step in which a Save issued in remote mode fails: at auth.getUser, at
\* the update or insert, or in the refresh that follows.
RemoteSaveFails(k) ==
    /\ opFlow[k].op = "handleSaveDocument"
    /\ FlowEnds(k)
    /\ operatingMode' # "supabase"

\* C14: when a remote Save fails at any step, the mode becomes degraded, a
\* cause is recorded, and the sections are the ones the Save was given.
C14_FailedRemoteSaveKeepsSections ==
    [][\A k \in DOMAIN opFlow :
         RemoteSaveFails(k)
         => (operatingMode' = "error" /\ appError' # "null" /\ rows' = opFlow[k].rows)]_vars

\* C14 happens: a remote Save of two sections wrote its row and failed in
\* the refresh that follows.
C14_Witness ==
    /\ last.op = "handleSaveDocument"
    /\ last.branch = "refresh-failed"
    /\ operatingMode = "error"
    /\ Len(rows) = 2

\* ------------------------------------------------ handlers called in any mode

\* handleSaveDocument and handleDeleteDocument test the mode themselves;
\* here they are also called while the document manager is not rendered.
NextCalls ==
    \/ NextModes
    \/ \E title \in SaveTitles : handleSaveDocument(title)
    \/ \E i \in 1..Len(savedDocuments) : handleDeleteDocument(savedDocuments[i].id)

SpecCalls == Init /\ [][NextCalls]_vars

RejectedSave ==
    \E title \in SaveTitles :
        /\ trim(title) = <<>> \/ operatingMode \notin {"supabase", "local"}
        /\ handleSaveDocument(title)

RejectedDelete ==
    /\ operatingMode \notin {"supabase", "local"}
    /\ \E i \in 1..Len(savedDocuments) : handleDeleteDocument(savedDocuments[i].id)

\* C15: a Save with a blank title in any mode, and a Save or Delete called
\* while the mode is neither "supabase" nor "local", change none of rows,
\* savedDocuments, currentDocumentId, operatingMode, the remote table and
\* localStorage.
C15_RejectedCallMutatesNothing ==
    [][(RejectedSave \/ RejectedDelete)
          => UNCHANGED <<rows, savedDocuments, currentDocumentId, operatingMode, db, ls>>]_vars

C15_Witness ==
    /\ last.op \in {"handleSaveDocument", "handleDeleteDocument"}
    /\ last.branch = "invalid-state"
    /\ operatingMode = "error"
    /\ savedDocuments # <<>>

\* ------------------------------------------------- the list after a remote call

RemoteCallCompleted ==
    /\ last.op \in {"handleSaveDocument", "handleDeleteDocument"}
    /\ last.branch = "completed"
    /\ operatingMode = "supabase"

\* C16: when a remote Save or Delete has completed and the mode is
\* "supabase", savedDocuments is the documents of the remote table as they
\* are now, the effect of the call included, in descending updated_at.
C16_ListIsRemoteTableAfterCall == RemoteCallCompleted => savedDocuments \in selectDocuments

C16_Witness ==
    /\ RemoteCallCompleted
    /\ last.op = "handleSaveDocument"
    /\ Len(savedDocuments) = 2
    /\ savedDocuments[1].updatedAt > savedDocuments[2].updatedAt

\* ------------------------------------------------- a session over an old store

\* What an earlier session in local mode left in localStorage at clock
\* reading 1: a blank document or a draft, with or without a saved document
\* that may be the open one.
PersistedDraft == <<createInitialRow(1, <<"d">>, <<>>)>>
PersistedDocument ==
    [id |-> 1, title |-> <<"t">>, rows |-> <<createInitialRow(1, <<"s">>, <<>>)>>,
     createdAt |-> 1, updatedAt |-> 1]

PersistedSnapshots ==
    {setItem(setItem(setItem(NoStorage, "rows", r), "docs", d), "cur", c) :
        r \in {<<createInitialRow(1, <<>>, <<>>)>>, PersistedDraft},
        d \in {<<>>, <<PersistedDocument>>},
        c \in {NoId, PersistedDocument.id}}

\* Snapshots with an item that parses, but not to a list: the sections are
\* null, or the list of documents is null or an object while a document is
\* open.  (Where such an item does not stop the load, the components that
\* render it fail; those stores are left out.)
MisshapenSnapshots ==
    {[st EXCEPT !.rows.json = JsonNull] :
        st \in {s \in PersistedSnapshots :
                  s.cur.json = NoId \/ findIndex(s.docs.json, s.cur.json) > 0}}
    \cup {[st EXCEPT !.docs.json = value] :
             st \in {s \in PersistedSnapshots : s.cur.json # NoId},
             value \in {JsonNull, JsonObject}}
    \cup {[NoStorage EXCEPT !.rows = [present |-> TRUE, corrupt |-> FALSE, json |-> JsonNull]]}
    \cup {[NoStorage EXCEPT !.docs = [present |-> TRUE, corrupt |-> FALSE, json |-> value],
                            !.cur = [present |-> TRUE, corrupt |-> FALSE,
                                     json |-> PersistedDocument.id]] :
             value \in {JsonNull, JsonObject}}

\* The stores a session can find: nothing, a snapshot whose open document
\* is one of its documents, such a snapshot with one item damaged, a
\* snapshot with a misshapen item, and any of these with the quota
\* exhausted.
PersistedStores ==
    LET sound == {st \in PersistedSnapshots :
                    st.cur.json # NoId => findIndex(st.docs.json, st.cur.json) > 0}
        damaged == {[st EXCEPT ![key] = CorruptItem] :
                       st \in sound, key \in {"rows", "docs", "cur"}}
    IN {[st EXCEPT !.full = f] :
           st \in {NoStorage} \cup sound \cup damaged \cup MisshapenSnapshots, f \in BOOLEAN}

InitStorage ==
    /\ now = 2
    /\ sdk = "loading"
    /\ sdkChanges = 0
    /\ isAiInitialized = TRUE
    /\ operatingMode = "loading"
    /\ appError = "null"
    /\ rows = <<createInitialRow(2, <<>>, <<>>)>>
    /\ savedDocuments = <<>>
    /\ currentDocumentId = NoId
    /\ db = <<>>
    /\ dbSeq = 0
    /\ ls \in PersistedStores
    /\ loadFlow = NoLoads
    /\ opFlow = <<>>
    /\ gens = EmptyBag
    /\ imports = EmptyBag
    /\ viewMode = "sections"
    /\ continuousContent = <<>>
    /\ syncStatus = IdleStatus
    /\ last = NoneRan
    /\ saved = NoSave

NextStorage ==
    \/ SdkLoaded
    \/ EffectLoadGetUser
    \/ EffectLoadSelect
    \/ handleAddRow
    \/ \E title \in SaveTitles : onSave(title)
    \/ Rendered /\ \E i \in 1..Len(savedDocuments) : onDelete(savedDocuments[i].id)
    \/ handleNewDocument

SpecStorage == InitStorage /\ [][NextStorage]_vars

\* -------------------------------------------------- the local path of the load

\* The mode-selection effect finds no client and calls loadFromLocalStorage.
LocalInitialize == sdk = "loading" /\ sdk' \in {"unavailable", "error"}

persistedId == getItem(ls, "cur", NoId)
persistedIndex == getItem(ls, "docs", <<>>)
persistedRows == getItem(ls, "rows", <<createInitialRow(now, <<>>, <<>>)>>)

\* The load throws: the list of documents is searched and is no list, or
\* the sections are measured and are null.
LocalLoadThrows ==
    IF persistedId # NoId THEN ~isArray(persistedIndex) ELSE persistedRows = JsonNull

PersistedIdInIndex ==
    /\ persistedId # NoId
    /\ isArray(persistedIndex)
    /\ findIndex(persistedIndex, persistedId) > 0

\* Sections that are none, or one section without input and output.
IsBlankRows(rs) ==
    /\ isArray(rs)
    /\ \/ Len(rs) = 0
       \/ Len(rs) = 1 /\ rs[1].input = <<>> /\ rs[1].output = <<>>

\* C17 as stated: on the local path, a persisted id found in the persisted
\* list opens that document; in every other case the sections are one
\* default section and no document is open.
C17_LocalLoadOpensOrResets ==
    [][LocalInitialize
          => IF PersistedIdInIndex
             THEN /\ rows' = persistedIndex[findIndex(persistedIndex, persistedId)].rows
                  /\ currentDocumentId' = persistedId
             ELSE /\ IsDefaultRows(rows')
                  /\ currentDocumentId' = NoId]_vars

\* C17: on the local path, a persisted id found in the persisted list
\* opens that document; a persisted id not in the list gives one default
\* section; without a persisted id the persisted sections are restored
\* unless they are blank, and then there is one default section; in the
\* last two cases no document is open.  When a persisted item that the
\* load uses is no list, the load fails instead: the mode is "error" with
\* a cause, and the state is what was read.
C17_LocalLoadOpensResetsOrRestores ==
    [][LocalInitialize
          => IF LocalLoadThrows
             THEN /\ operatingMode' = "error"
                  /\ appError' # "null"
                  /\ rows' = persistedRows
                  /\ savedDocuments' = persistedIndex
                  /\ currentDocumentId' = persistedId
             ELSE /\ operatingMode' = "local"
                  /\ IF PersistedIdInIndex
                     THEN /\ rows' = persistedIndex[findIndex(persistedIndex, persistedId)].rows
                          /\ currentDocumentId' = persistedId
                     ELSE /\ currentDocumentId' = NoId
                          /\ IF persistedId = NoId /\ ~IsBlankRows(persistedRows)
                             THEN rows' = persistedRows
                             ELSE IsDefaultRows(rows')]_vars

C17_Witness ==
    /\ last.op = "modeSelection"
    /\ last.branch \in {"unavailable", "error"}
    /\ operatingMode = "local"
    /\ currentDocumentId = NoId
    /\ rows = PersistedDraft

\* ------------------------------------------------------- the order of the list

IsSortedByUpdatedAt(docs) ==
    \A i \in 1..Len(docs), j \in 1..Len(docs) :
        i < j => docs[i].updatedAt >= docs[j].updatedAt

\* C18: in every reachable state whose mode is "supabase" or "local",
\* savedDocuments is in descending order of updatedAt, whatever Saves,
\* Deletes, Opens and New Documents came before.
C18_ListSortedByUpdatedAt == Rendered => IsSortedByUpdatedAt(savedDocuments)

C18_Witness ==
    /\ operatingMode = "local"
    /\ last.op = "handleSaveDocument"
    /\ last.branch = "local-created"
    /\ Len(savedDocuments) = 2
    /\ savedDocuments[1].updatedAt > savedDocuments[2].updatedAt

\* ------------------------------------------------------- who writes which store

\* A step of a remote Save or Delete in which the insert, update or delete
\* request is answered.
RemoteWriteAnswered ==
    \E k \in DOMAIN opFlow :
      /\ opFlow[k].pc \in {"saveWrite", "deleteWrite"}
      /\ opFlow[k].op \in {"handleSaveDocument", "handleDeleteDocument"}
      /\ opFlow' = [opFlow EXCEPT ![k].pc = "loadGetUser"]

\* C19: localStorage changes only in steps that end in "local" mode; in
\* "supabase" mode a step that changes the sections changes neither
\* localStorage nor the remote table; and the remote table changes only
\* when the request of a Save or Delete is answered.
C19_StoresWrittenOnlyByTheirMode ==
    [][/\ ls' # ls => operatingMode' = "local"
       /\ (operatingMode = "supabase" /\ rows' # rows) => (ls' = ls /\ db' = db)
       /\ db' # db => RemoteWriteAnswered]_vars

C19_Witness ==
    /\ operatingMode = "supabase"
    /\ last.op = "handleAddRow"
    /\ Len(rows) = 2
    /\ db # <<>>
    /\ ls = NoStorage

\* ------------------------------------------------------ a failing localStorage

\* loadFromLocalStorage reads an item that JSON.parse rejects.
StorageReadFails ==
    /\ LocalInitialize
    /\ \E key \in {"rows", "docs", "cur"} : ls[key] = CorruptItem

\* The autosave effect writes the snapshot while the quota is exhausted.
SnapshotWriteFails ==
    /\ ls.full
    /\ operatingMode' = "local"
    /\ appVars' # appVars

\* C20: a read of localStorage that fails during the load, and a write of
\* the snapshot that fails in local mode, move the mode to "error".
C20_StorageFailureDegrades ==
    [][(StorageReadFails \/ SnapshotWriteFails) => operatingMode' = "error"]_vars


\* ------------------------------------------------ the reach of a generation

\* A step in which the generation asked for one section ends: it fails
\* before the request because there is no client, or generateText returns.
GenerationEnds ==
    \/ ~isAiInitialized /\ \E id \in rowIds : handleGenerateText(id)
    \/ \E id \in BagToSet(gens), answer \in Answers : GenerateTextDone(id, answer)

DistinctIds(rs) == \A i \in 1..Len(rs), j \in 1..Len(rs) : rs[i].id = rs[j].id => i = j

\* C21: the end of a generation changes at most the one section that asked
\* for it: the mode, the number and order of the sections and every other
\* section are as before.
C21_GenerationChangesOneSection ==
    [][GenerationEnds
          => /\ operatingMode' = operatingMode
             /\ Len(rows') = Len(rows)
             /\ \A i \in 1..Len(rows) : rows'[i].id = rows[i].id
             /\ Cardinality({i \in 1..Len(rows) : rows'[i] # rows[i]}) <= 1]_vars


\* ------------------------------------------------ Open and New Document

\* C22: Open puts the sections and the id of the chosen document on
\* screen, New Document puts one default section on screen and no open
\* document; neither changes the remote table, the list of saved
\* documents or the mode.
C22_OpenAndNewOnlyChangeTheScreen ==
    [][/\ \A i \in 1..Len(savedDocuments) :
            handleOpenDocument(savedDocuments[i])
            => /\ rows' = savedDocuments[i].rows
               /\ currentDocumentId' = savedDocuments[i].id
               /\ UNCHANGED <<db, savedDocuments, operatingMode>>
       /\ handleNewDocument
            => /\ IsDefaultRows(rows')
               /\ currentDocumentId' = NoId
               /\ UNCHANGED <<db, savedDocuments, operatingMode>>]_vars

C22_Witness ==
    /\ last.op = "handleOpenDocument"
    /\ operatingMode = "supabase"
    /\ db # <<>>
    /\ currentDocumentId = last.arg.document.id
    /\ rows = last.arg.document.rows
    /\ rows # last.arg.rows


\* ------------------------------------------ generation among the documents

\* Generation interleaved with the document handlers and their remote
\* requests.
NextBusy ==
    \/ SdkLoaded
    \/ EffectLoadGetUser
    \/ EffectLoadSelect
    \/ \E id \in rowIds : handleGenerateText(id)
    \/ \E id \in BagToSet(gens), answer \in Answers : GenerateTextDone(id, answer)
    \/ \E title \in {<<"t">>} : onSave(title)
    \/ SaveGetUser
    \/ SaveWrite
    \/ \E i \in 1..Len(savedDocuments) : handleOpenDocument(savedDocuments[i])
    \/ \E i \in 1..Len(savedDocuments) : onDelete(savedDocuments[i].id)
    \/ DeleteWrite
    \/ OpLoadGetUser
    \/ OpLoadSelect
    \/ handleNewDocument

SpecBusy == Init /\ [][NextBusy]_vars

\* A section in the middle of a generation, or with the error of one.
IsTransient(row) == row.isLoading \/ row.error # NoError

HasTransient(rs) == \E i \in 1..Len(rs) : IsTransient(rs[i])

\* C23: no document of the remote table, no document of the local list and
\* no item of localStorage holds a section that is loading or has an error.
C23_TransientStateNeverStored ==
    /\ \A i \in 1..Len(db) : ~HasTransient(db[i].rows)
    /\ \A i \in 1..Len(savedDocuments) : ~HasTransient(savedDocuments[i].rows)
    /\ ~HasTransient(getItem(ls, "rows", <<>>))
    /\ \A i \in 1..Len(getItem(ls, "docs", <<>>)) : ~HasTransient(getItem(ls, "docs", <<>>)[i].rows)


\* ------------------------------------------------------- the ids of sections

\* The session in which sections are made: by Add Section, by New Document,
\* by the load that follows a remote Save, and by the import of a file,
\* whose text arrives in whatever mode the session is in by then.
NextImport ==
    \/ Tick
    \/ SdkLoaded
    \/ EffectLoadGetUser
    \/ EffectLoadSelect
    \/ handleAddRow
    \/ \E id \in rowIds : handleDeleteRow(id)
    \/ \E title \in SaveTitles : onSave(title)
    \/ SaveGetUser
    \/ SaveWrite
    \/ OpLoadGetUser
    \/ OpLoadSelect
    \/ handleNewDocument
    \/ \E text \in ImportTexts : handleFileUpload(text)
    \/ \E text \in BagToSet(imports) : handleImportDocument(text)
    \/ \E text \in BagToSet(imports) : handleFileUploadFailed(text)

SpecImport == Init /\ [][NextImport]_vars

\* C24: in every reachable state the sections on screen have pairwise
\* distinct ids.
C24_SectionIdsDistinct == DistinctIds(rows)


\* ------------------------------------------------------- a successful Sync

\* A Sync whose parsed sections are as many as the sections.
SuccessfulSync ==
    /\ handleSyncContinuousChanges
    /\ Len(newSectionsData(continuousContent)) = Len(rows)

\* C25: after a successful Sync the section at every position has the
\* title and the body parsed at that position, and a section whose parsed
\* title and body are the ones it had is the same section as before.
C25_SyncPairsByPosition ==
    [][SuccessfulSync
          => LET data == newSectionsData(continuousContent)
             IN \A i \in 1..Len(rows) :
                  /\ rows'[i].title = data[i].title
                  /\ rows'[i].output = data[i].outputHTML
                  /\ (rows[i].title = data[i].title /\ rows[i].output = data[i].outputHTML)
                       => rows'[i] = rows[i]]_vars

C25_Witness ==
    /\ last.op = "handleSyncContinuousChanges"
    /\ last.branch = "synced"
    /\ Len(rows) = 2
    /\ rows[1] = last.arg[1]
    /\ rows[2] # last.arg[2]
    /\ rows[1].output # rows[2].output


\* C26: a successful Sync keeps the number of sections, their order and
\* ids, and every field of every section other than title and output.
C26_SyncKeepsStructure ==
    [][SuccessfulSync
          => /\ Len(rows') = Len(rows)
             /\ \A i \in 1..Len(rows) :
                  /\ rows'[i].id = rows[i].id
                  /\ [rows'[i] EXCEPT !.title = rows[i].title, !.output = rows[i].output]
                       = rows[i]]_vars

C26_Witness ==
    /\ last.op = "handleSyncContinuousChanges"
    /\ last.branch = "synced"
    /\ Len(rows) = 2
    /\ Len(last.arg) = 2
    /\ rows[1].title # last.arg[1].title
    /\ rows[1].id = last.arg[1].id
    /\ rows[2].id # rows[1].id


\* ------------------------------------------------ the screen after remote calls

\* The step in which a Save issued in remote mode completes: its refresh
\* has loaded the list and the mode is "supabase" again.
RemoteSaveCompletes(k) ==
    /\ opFlow[k].op = "handleSaveDocument"
    /\ FlowEnds(k)
    /\ operatingMode' = "supabase"

\* C27: when a remote Save completes, the sections on screen are the
\* sections that were saved.
C27_RemoteSaveKeepsSections ==
    [][\A k \in DOMAIN opFlow : RemoteSaveCompletes(k) => rows' = opFlow[k].rows]_vars


\* A Delete in local mode of a document that is not the open one.
LocalDeleteOfOther ==
    /\ operatingMode = "local"
    /\ \E i \in 1..Len(savedDocuments) :
          /\ savedDocuments[i].id # currentDocumentId
          /\ handleDeleteDocument(savedDocuments[i].id)

\* The step in which a Delete issued in remote mode, of a document that
\* was not the open one, completes.
RemoteDeleteOfOtherCompletes(k) ==
    /\ opFlow[k].op = "handleDeleteDocument"
    /\ opFlow[k].id # opFlow[k].currentDocumentId
    /\ FlowEnds(k)
    /\ operatingMode' = "supabase"

\* C28: a Delete of a document that is not the open one leaves the
\* sections and the open document as they were, in local and in remote
\* mode.
C28_DeleteOfOtherKeepsScreen ==
    [][/\ LocalDeleteOfOther => UNCHANGED <<rows, currentDocumentId>>
       /\ \A k \in DOMAIN opFlow :
            RemoteDeleteOfOtherCompletes(k)
            => (rows' = opFlow[k].rows
                /\ currentDocumentId' = opFlow[k].currentDocumentId)]_vars


\* ------------------------------------------------ the end of every generation

\* The ids a section can have: the readings of the clock.
SectionIds == 1..MaxClock

\* generateText returns for every request.
GenerationAnswers ==
    \A id \in SectionIds : WF_vars(\E answer \in Answers : GenerateTextDone(id, answer))

SpecBusyFair == SpecBusy /\ GenerationAnswers

IsLoadingSection(id) == \E i \in 1..Len(rows) : rows[i].id = id /\ rows[i].isLoading

\* C29: when generateText returns for every request, every section on
\* screen that is loading is later not loading.
C29_LoadingEnds == \A id \in SectionIds : IsLoadingSection(id) ~> ~IsLoadingSection(id)


\* ------------------------------------------------------ the end of loading

\* useSupabase finishes loading and Supabase answers every request.
RemoteAnswers ==
    /\ WF_vars(SdkLoaded)
    /\ WF_vars(EffectLoadGetUser)
    /\ WF_vars(EffectLoadSelect)
    /\ WF_vars(SaveGetUser)
    /\ WF_vars(SaveWrite)
    /\ WF_vars(DeleteWrite)
    /\ WF_vars(OpLoadGetUser)
    /\ WF_vars(OpLoadSelect)

SpecFair == Spec /\ RemoteAnswers

\* C30: when useSupabase finishes loading and every request is answered,
\* the mode "loading" always ends: in "supabase", "local" or "error".
C30_LoadingModeEnds ==
    (operatingMode = "loading") ~> (operatingMode \in {"supabase", "local", "error"})

C30_Witness ==
    /\ last.op = "handleDeleteDocument"
    /\ last.branch = "completed"
    /\ last.beenSupabase
    /\ operatingMode = "supabase"
    /\ opFlow = <<>>

====
